---- MODULE Spec2Model ----
(***************************************************************************)
(* LeDossier: the Flask authentication gateway (src/flask/main.py), the    *)
(* script of the delivery page it returns, and the two model-reply         *)
(* adapters (src/agents/gemini_agent.py, src/bedrock/bedrock_agent.py).    *)
(*                                                                         *)
(* Text is a sequence of chunks.  A chunk is a TLA+ string; the characters *)
(* that matter to a JavaScript string literal (the double quote and the    *)
(* backslash) are always chunks of their own.  Join gives the flat text.   *)
(***************************************************************************)
EXTENDS Integers, Sequences, FiniteSets, TLC

VARIABLES
    session,    \* session[s]: the session dict of browser session s (Flask's cookie session)
    resp,       \* the last HTTP exchange: who asked what, and what the gateway answered
    history,    \* per session, an observation log of its own requests (not program state)
    window,     \* the browser window showing the last delivery page
    calls       \* the replies the model adapters have given their caller so far

vars == <<session, resp, history, window, calls>>

\* Number of concurrent browser sessions.
NumSessions == 2
\* Number of adapter calls the caller makes.
MaxCalls == 2

Sessions == 1..NumSessions

----------------------------------------------------------------------------
\* Text

DQ == "\""
BS == "\\"

RECURSIVE Join(_)
Join(cs) == IF cs = <<>> THEN "" ELSE Head(cs) \o Join(Tail(cs))

\* The email claims the identity provider may return: a plain address, one with
\* a double quote in its local part, and one with an escaped quote.
Emails ==
    { <<"a@b.com">>,
      <<"a", DQ, "b@c.com">>,
      <<"o", BS, DQ, "@c.com">> }

\* The userinfo records of the provider: the subject claim is always there, the
\* email claim is not (scope 'email openid phone': an account may have a phone only).
UserInfos ==
    { [sub |-> "u1"] } \cup { [sub |-> "u1", email |-> e] : e \in Emails }

\* The empty session dict.
EmptySession == [k \in {} |-> 0]

\* Python's truth value of a dict: non-empty.
Truthy(d) == DOMAIN d # {}

\* A variant that keeps the value a key already has (dict.setdefault).
SetItem_KeepsExisting(d, key, value) == d @@ (key :> value)

\* d[key] = value on a dict.
SetItem(d, key, value) == (key :> value) @@ d

\* d.pop(key, None) on a dict: the dict without the key.
Pop(d, key) == [k \in DOMAIN d \ {key} |-> d[k]]

----------------------------------------------------------------------------
\* The gateway's handlers: each takes the request's session dict (and what the
\* identity provider answers) and gives the session dict after the request and
\* the response.

\* An exception that leaves the view: Flask answers 500 and the session keeps
\* what the handler had done to it before the exception.
ServerError(sess, what) ==
    [session |-> sess, status |-> 500, body |-> [kind |-> "error", error |-> what]]

Redirect(sess, to) ==
    [session |-> sess, status |-> 302, body |-> [kind |-> "redirect", to |-> to]]

Html(sess, text) ==
    [session |-> sess, status |-> 200, body |-> [kind |-> "html", text |-> Join(text)]]

WelcomeText == <<"Welcome! Please <a href=", DQ, "/login", DQ, ">Login</a>.">>

HelloText(email) == <<"Hello, ">> \o email \o <<". <a href=", DQ, "/logout", DQ, ">Logout</a>">>

\* A variant that starts a guest user record for an anonymous visitor.
index_CreatesGuest(sess) ==
    IF "user" \in DOMAIN sess /\ Truthy(sess["user"])
    THEN IF "email" \in DOMAIN sess["user"]
         THEN Html(sess, HelloText(sess["user"]["email"]))
         ELSE ServerError(sess, "KeyError: 'email'")
    ELSE Html((("user" :> [sub |-> "guest"]) @@ sess), WelcomeText)

index(sess) ==
    IF "user" \in DOMAIN sess /\ Truthy(sess["user"])
    THEN IF "email" \in DOMAIN sess["user"]
         THEN Html(sess, HelloText(sess["user"]["email"]))
         ELSE ServerError(sess, "KeyError: 'email'")
    ELSE Html(sess, WelcomeText)

login(sess) == Redirect(sess, "identity provider")

\* The text of the delivery page at the places the handler interpolates into.
DeliveryPage(email, deep_link) ==
    [ kind          |-> "delivery",
      welcome       |-> email,
      authDataEmail |-> <<DQ>> \o email \o <<DQ>>,
      hrefLiteral   |-> <<DQ>> \o deep_link \o <<DQ>>,
      openLiteral   |-> <<DQ>> \o deep_link \o <<DQ>> ]

DeepLink(email) == <<"ledossier://auth?email=">> \o email \o <<"&success=true">>

EmailOf(userinfo) ==
    IF "email" \in DOMAIN userinfo THEN userinfo["email"] ELSE <<"user">>

\* A variant that drops the session's user before it asks the provider.
authorize_ClearsFirst(sess, tokenOk, infoOk, userinfo) ==
    LET sess1 == Pop(sess, "user")
    IN  IF ~tokenOk THEN ServerError(sess1, "authorize_access_token")
        ELSE IF ~infoOk THEN ServerError(sess1, "userinfo")
        ELSE LET email == EmailOf(userinfo)
             IN  [ session |-> (("user" :> userinfo) @@ sess1), status |-> 200,
                   body |-> DeliveryPage(email, DeepLink(email)) ]

authorize(sess, tokenOk, infoOk, userinfo) ==
    IF ~tokenOk THEN ServerError(sess, "authorize_access_token")
    ELSE IF ~infoOk THEN ServerError(sess, "userinfo")
    ELSE LET sess2 == SetItem(sess, "user", userinfo)
             email == EmailOf(userinfo)
         IN  [ session |-> sess2, status |-> 200,
               body |-> DeliveryPage(email, DeepLink(email)) ]

\* A variant that pops the wrong key.
logout_WrongKey(sess) == Redirect(Pop(sess, "email"), "/")

logout(sess) == Redirect(Pop(sess, "user"), "/")

\* A variant with one session dict for every cookie (a module-level global).
SaveSession_Shared(store, sid, sess) == [t \in DOMAIN store |-> sess]

\* Flask keeps one session per session cookie: saving the session of request
\* sid touches that cookie's session only.
SaveSession(store, sid, sess) == [store EXCEPT ![sid] = sess]

----------------------------------------------------------------------------
\* The observation log of a session: whether an authorization ever succeeded in
\* it, and the userinfo the provider gave at the latest successful authorization
\* that no logout has followed.

NoHistory == [ever |-> FALSE, granted |-> {}]

Observe(h, route, status, given) ==
    IF route = "authorize" /\ status = 200 THEN [ever |-> TRUE, granted |-> given]
    ELSE IF route = "logout" THEN [h EXCEPT !.granted = {}]
    ELSE h

NoResp ==
    [ sid |-> 0, route |-> "none", status |-> 0, body |-> [kind |-> "none"],
      before |-> EmptySession, given |-> {} ]

NoWindow == [phase |-> "none"]

Serve(s, route, r, given) ==
    /\ session' = SaveSession(session, s, r.session)
    /\ resp' = [ sid |-> s, route |-> route, status |-> r.status, body |-> r.body,
                 before |-> session[s], given |-> given ]
    /\ history' = [history EXCEPT ![s] = Observe(@, route, r.status, given)]

Index(s) ==
    /\ Serve(s, "index", index(session[s]), {})
    /\ UNCHANGED <<window, calls>>

Login(s) ==
    /\ Serve(s, "login", login(session[s]), {})
    /\ UNCHANGED <<window, calls>>

Authorize(s) ==
    \E tokenOk \in BOOLEAN, infoOk \in BOOLEAN, userinfo \in UserInfos :
        /\ Serve(s, "authorize", authorize(session[s], tokenOk, infoOk, userinfo),
                 IF tokenOk /\ infoOk THEN {userinfo} ELSE {})
        /\ UNCHANGED <<window, calls>>

Logout(s) ==
    /\ Serve(s, "logout", logout(session[s]), {})
    /\ UNCHANGED <<window, calls>>

----------------------------------------------------------------------------
\* The script of the delivery page, run by the browser that shows it.

\* Milliseconds before the deep link is tried a second time.
DeepLinkRetryDelay == 500
\* Milliseconds before a popup closes itself.
CloseDelay == 2000

\* A JavaScript double-quoted string literal, read after its opening quote:
\* a backslash takes the next chunk as it is (the model's texts have only a
\* quote after a backslash), a quote ends the literal, and whatever follows the
\* closing quote is no part of a string (a syntax error in the places the page
\* uses its literals, for the texts of the model).
RECURSIVE ScanString(_, _)
ScanString(rest, acc) ==
    IF rest = <<>> THEN [ok |-> FALSE, value |-> acc]
    ELSE IF Head(rest) = DQ THEN [ok |-> Tail(rest) = <<>>, value |-> acc]
    ELSE IF Head(rest) = BS
         THEN IF Len(rest) < 2 THEN [ok |-> FALSE, value |-> acc]
              ELSE ScanString(Tail(Tail(rest)), Append(acc, rest[2]))
    ELSE ScanString(Tail(rest), Append(acc, Head(rest)))

ParseJSString(lit) ==
    IF lit = <<>> \/ Head(lit) # DQ THEN [ok |-> FALSE, value |-> <<>>]
    ELSE ScanString(Tail(lit), <<>>)

\* The script element runs only if all of it parses.
ScriptParses(page) ==
    /\ ParseJSString(page.authDataEmail).ok
    /\ ParseJSString(page.hrefLiteral).ok
    /\ ParseJSString(page.openLiteral).ok

\* What the browser does with each call the script makes: whether navigating
\* to the custom scheme throws, whether local storage throws, whether the page
\* has an opener and whether posting to it throws.
Envs ==
    [ hrefThrows : BOOLEAN, storageThrows : BOOLEAN,
      hasOpener : BOOLEAN, postThrows : BOOLEAN ]

\* The window as the page arrives, before its script runs.
Load(page, env) ==
    [ phase |-> "loaded", page |-> page, env |-> env,
      authData |-> {}, location |-> {}, storage |-> {}, posted |-> {},
      status |-> "Redirecting back to Le Dossier...",
      timers |-> {}, console |-> <<>>, attempted |-> {}, raised |-> FALSE,
      opened |-> {}, uncaught |-> FALSE ]

Throw(w) == [w EXCEPT !.raised = TRUE]

Catch(w, message) ==
    IF w.raised THEN [w EXCEPT !.raised = FALSE, !.console = Append(@, message)]
    ELSE w

\* const authData = { email: "...", success: true, timestamp: ... }; the
\* timestamp is the time of the run and is left out.
DeclareAuthData(w) ==
    [w EXCEPT !.authData =
        {[email |-> Join(ParseJSString(w.page.authDataEmail).value), success |-> TRUE]}]

tryDeepLinkBody(w) ==
    IF w.env.hrefThrows THEN Throw(w)
    ELSE [w EXCEPT !.location = {Join(ParseJSString(w.page.hrefLiteral).value)},
                   !.timers = @ \cup {[delay |-> DeepLinkRetryDelay, do |-> "open"]}]

\* A variant without the try/catch.
tryDeepLink_NoCatch(w) ==
    tryDeepLinkBody([w EXCEPT !.attempted = @ \cup {"tryDeepLink"}])

tryDeepLink(w) ==
    Catch(tryDeepLinkBody([w EXCEPT !.attempted = @ \cup {"tryDeepLink"}]),
          "Deep link not supported on this platform")

notifyWebAppBody(w) ==
    IF w.env.storageThrows THEN Throw(w)
    ELSE LET w1 == [w EXCEPT !.storage = w.authData]
         IN  IF w1.env.hasOpener
             THEN IF w1.env.postThrows THEN Throw(w1)
                  ELSE [w1 EXCEPT
                          !.posted = {[type |-> "LEDOSSIER_AUTH_SUCCESS", data |-> d] :
                                         d \in w1.authData},
                          !.status = "Authentication complete! This window will close shortly...",
                          !.timers = @ \cup {[delay |-> CloseDelay, do |-> "close"]}]
             ELSE [w1 EXCEPT !.status = "You can now close this tab and return to Le Dossier."]

notifyWebApp(w) ==
    Catch(notifyWebAppBody([w EXCEPT !.attempted = @ \cup {"notifyWebApp"}]),
          "Web communication methods not available")

\* The top level of the script: an exception that leaves a call ends the script.
Script(w) ==
    LET r1 == tryDeepLink(DeclareAuthData(w))
    IN  IF r1.raised THEN r1 ELSE notifyWebApp(r1)

\* The timer that is due next.
DueTimer(w, t) ==
    /\ t \in w.timers
    /\ \A u \in w.timers : t.delay <= u.delay

RunScript ==
    /\ window.phase = "loaded"
    /\ ScriptParses(window.page)
    /\ window' = [Script(window) EXCEPT !.phase = "ran"]
    /\ UNCHANGED <<session, resp, history, calls>>

ScriptSyntaxError ==
    /\ window.phase = "loaded"
    /\ ~ScriptParses(window.page)
    /\ window' = [window EXCEPT !.phase = "syntax_error",
                                !.console = Append(@, "Uncaught SyntaxError")]
    /\ UNCHANGED <<session, resp, history, calls>>

\* setTimeout(function() { window.open(deep_link, "_self"); }, 500): an
\* exception in a timer callback ends that callback only.
TimerOpen ==
    /\ window.phase = "ran"
    /\ \E t \in window.timers :
        /\ DueTimer(window, t)
        /\ t.do = "open"
        /\ window' =
             IF window.env.hrefThrows
             THEN [window EXCEPT !.timers = @ \ {t}, !.uncaught = TRUE]
             ELSE [window EXCEPT !.timers = @ \ {t},
                      !.opened = {Join(ParseJSString(window.page.openLiteral).value)}]
    /\ UNCHANGED <<session, resp, history, calls>>

\* setTimeout(function() { window.close(); }, 2000)
TimerClose ==
    /\ window.phase = "ran"
    /\ \E t \in window.timers :
        /\ DueTimer(window, t)
        /\ t.do = "close"
        /\ window' = [window EXCEPT !.timers = {}, !.phase = "closed"]
    /\ UNCHANGED <<session, resp, history, calls>>

----------------------------------------------------------------------------
\* The model-reply adapters.  None is <<"None">>, a string s is <<"str", s>>.

None == <<"None">>
Str(s) == <<"str", s>>

Prompts == {"", "hi", "What is the capital of France?"}

\* What client.models.generate_content does: it raises, or it gives a response
\* whose text is None (no candidate, no text part) or a string.
GeminiOutcomes ==
    { [raises |-> TRUE] } \cup
    { [raises |-> FALSE, text |-> t] : t \in {None, Str(""), Str("Paris")} }

\* What client.converse does: it raises, or it gives a response; content is the
\* list response["output"]["message"]["content"], each block a dict.
BedrockOutcomes ==
    { [raises |-> TRUE] } \cup
    { [raises |-> FALSE, content |-> c] :
        c \in { <<>>,
                << [reasoningContent |-> "..."] >>,
                << [text |-> ""] >>,
                << [text |-> "Paris"] >>,
                << [text |-> "Paris"], [text |-> "France"] >> } }

Raised(what) == [outcome |-> "raised", error |-> what]
Returned(value) == [outcome |-> "returned", value |-> value]

gemini_get_reply(prompt, provider) ==
    IF provider.raises THEN Raised("generate_content")
    ELSE Returned(provider.text)

bedrock_get_reply(prompt, provider) ==
    IF provider.raises THEN Raised("converse")
    ELSE IF Len(provider.content) = 0 THEN Raised("IndexError")
    ELSE IF "text" \notin DOMAIN provider.content[1] THEN Raised("KeyError: 'text'")
    ELSE Returned(Str(provider.content[1]["text"]))

GeminiCall ==
    /\ Len(calls) < MaxCalls
    /\ \E prompt \in Prompts, provider \in GeminiOutcomes :
        calls' = Append(calls, [adapter |-> "gemini", prompt |-> prompt,
                                reply |-> gemini_get_reply(prompt, provider)])
    /\ UNCHANGED <<session, resp, history, window>>

BedrockCall ==
    /\ Len(calls) < MaxCalls
    /\ \E prompt \in Prompts, provider \in BedrockOutcomes :
        calls' = Append(calls, [adapter |-> "bedrock", prompt |-> prompt,
                                reply |-> bedrock_get_reply(prompt, provider)])
    /\ UNCHANGED <<session, resp, history, window>>

----------------------------------------------------------------------------
Init ==
    /\ session = [s \in Sessions |-> EmptySession]
    /\ resp = NoResp
    /\ history = [s \in Sessions |-> NoHistory]
    /\ window = NoWindow
    /\ calls = <<>>

Next ==
    \/ \E s \in Sessions : Index(s)
    \/ \E s \in Sessions : Login(s)
    \/ \E s \in Sessions : Authorize(s)
    \/ \E s \in Sessions : Logout(s)

Spec == Init /\ [][Next]_vars

\* The delivery page in a browser: the state after a first successful
\* /authorize in session 1, for any userinfo, shown by a browser of any kind.
InitPage ==
    \E userinfo \in UserInfos, env \in Envs :
        LET r == authorize(EmptySession, TRUE, TRUE, userinfo)
        IN  /\ session = SaveSession([s \in Sessions |-> EmptySession], 1, r.session)
            /\ resp = [ sid |-> 1, route |-> "authorize", status |-> r.status,
                        body |-> r.body, before |-> EmptySession, given |-> {userinfo} ]
            /\ history = [ s \in Sessions |->
                             IF s = 1 THEN Observe(NoHistory, "authorize", r.status, {userinfo})
                             ELSE NoHistory ]
            /\ calls = <<>>
            /\ window = Load(r.body, env)

NextPage ==
    \/ RunScript
    \/ ScriptSyntaxError
    \/ TimerOpen
    \/ TimerClose

SpecPage == InitPage /\ [][NextPage]_vars

\* A caller of the adapters.
NextAdapter ==
    \/ GeminiCall
    \/ BedrockCall

SpecAdapter == Init /\ [][NextAdapter]_vars

----------------------------------------------------------------------------
\* Claims

Range(seq) == { seq[i] : i \in DOMAIN seq }

\* The session dict a session's own history accounts for.
OwnSession(h) ==
    IF h.granted = {} THEN EmptySession
    ELSE [user |-> CHOOSE u \in h.granted : TRUE]

\* C1: after a successful /authorize in a session, with no /logout since, GET /
\* in that session answers the authenticated greeting with exactly the email
\* claim of the userinfo the provider returned, never the Welcome prompt.
C1_GreetingHasProviderEmail ==
    (resp.route = "index" /\ history[resp.sid].granted # {}) =>
        \A u \in history[resp.sid].granted :
            /\ resp.status = 200
            /\ resp.body.kind = "html"
            /\ resp.body.text # Join(WelcomeText)
            /\ "email" \in DOMAIN u => resp.body.text = Join(HelloText(u["email"]))

\* C2: a GET /logout leaves the session without a user record, whatever it held
\* before; GET / then answers the Welcome prompt, and a second GET /logout
\* leaves the session as the first did.
C2_LogoutClearsUser ==
    resp.route = "logout" =>
        /\ "user" \notin DOMAIN session[resp.sid]
        /\ index(session[resp.sid]).body = [kind |-> "html", text |-> Join(WelcomeText)]
        /\ index(session[resp.sid]).session = session[resp.sid]
        /\ logout(session[resp.sid]).session = session[resp.sid]

\* C2 witness: a logout of a session that held a user record.
C2_LogoutOfAuthenticated ==
    /\ resp.route = "logout"
    /\ "user" \in DOMAIN resp.before
    /\ \E t \in Sessions : t # resp.sid /\ "user" \in DOMAIN session[t]

\* C3: when the userinfo has no email claim, the deep link of the delivery page
\* and the greeting of a later GET / both use the literal "user", and neither
\* endpoint fails.
C3_FallbackUserEverywhere ==
    /\ (resp.route = "authorize" /\ resp.given # {}) =>
          \A u \in resp.given : "email" \notin DOMAIN u =>
              /\ resp.status = 200
              /\ resp.body.kind = "delivery"
              /\ Join(resp.body.hrefLiteral)
                   = DQ \o "ledossier://auth?email=user&success=true" \o DQ
    /\ (resp.route = "index" /\ history[resp.sid].granted # {}) =>
          \A u \in history[resp.sid].granted : "email" \notin DOMAIN u =>
              /\ resp.status = 200
              /\ resp.body.kind = "html"
              /\ resp.body.text = Join(HelloText(<<"user">>))

\* C4: a session holds no user record or exactly one, a userinfo of the
\* provider; after a successful /authorize it holds exactly the userinfo of
\* that authorization, whatever it held before.
C4_AuthorizeOverwrites ==
    /\ \A s \in Sessions :
          \/ session[s] = EmptySession
          \/ \E u \in UserInfos : session[s] = [user |-> u]
    /\ (resp.route = "authorize" /\ resp.status = 200) =>
          /\ Cardinality(resp.given) = 1
          /\ \A u \in resp.given : session[resp.sid] = [user |-> u]

\* C4 witness: a successful /authorize in a session that held another user,
\* whose record had an email claim the new one has not.
C4_OverwroteAnotherUser ==
    /\ resp.route = "authorize"
    /\ resp.status = 200
    /\ "user" \in DOMAIN resp.before
    /\ "email" \in DOMAIN resp.before["user"]
    /\ \A u \in resp.given : "email" \notin DOMAIN u

\* C5: in a session where no /authorize has succeeded, GET / answers the
\* Welcome prompt; and GET / leaves the session as it found it.
C5_IndexAnonymousNoEffect ==
    resp.route = "index" =>
        /\ session[resp.sid] = resp.before
        /\ ~history[resp.sid].ever =>
              /\ resp.status = 200
              /\ resp.body = [kind |-> "html", text |-> Join(WelcomeText)]
              /\ session[resp.sid] = EmptySession

\* C5 witness: GET / in a session that never authorized (a failed /authorize
\* aside), next to a session that did.
C5_IndexInFreshSession ==
    /\ resp.route = "index"
    /\ ~history[resp.sid].ever
    /\ resp.body.text = Join(WelcomeText)
    /\ \E t \in Sessions : t # resp.sid /\ history[t].ever /\ "user" \in DOMAIN session[t]

\* C6: for a non-empty prompt, get_reply of either adapter returns a string
\* that is neither None nor empty, or it raises.
C6_NeverEmptySuccess ==
    \A i \in DOMAIN calls :
        (calls[i].prompt # "" /\ calls[i].reply.outcome = "returned") =>
            /\ calls[i].reply.value # None
            /\ calls[i].reply.value # Str("")

\* C7: for the email e a successful /authorize delivers, the deep link in the
\* page is ledossier://auth?email=<e>&success=true, and once the browser has
\* taken the script the email field of authData is e.
C7_PageCarriesEmail ==
    (resp.route = "authorize" /\ resp.status = 200 /\ window.phase # "none") =>
        \A u \in resp.given :
            LET e == Join(EmailOf(u))
            IN  /\ Join(window.page.hrefLiteral)
                     = DQ \o "ledossier://auth?email=" \o e \o "&success=true" \o DQ
                /\ window.phase # "loaded" =>
                     window.authData = {[email |-> e, success |-> TRUE]}

\* What the two delivery attempts leave behind.  The console lines are taken
\* as a set: their order is the order of the calls.
Outcome(w) ==
    [ attempted |-> w.attempted, raised |-> w.raised, location |-> w.location,
      storage |-> w.storage, posted |-> w.posted, status |-> w.status,
      timers |-> w.timers, console |-> Range(w.console) ]

DeepLinkPart(w) ==
    [ location |-> w.location,
      timers |-> { t \in w.timers : t.do = "open" },
      logged |-> "Deep link not supported on this platform" \in Range(w.console) ]

WebPart(w) ==
    [ storage |-> w.storage, posted |-> w.posted, status |-> w.status,
      timers |-> { t \in w.timers : t.do = "close" },
      logged |-> "Web communication methods not available" \in Range(w.console) ]

\* The script with its two calls in the other order.
ScriptSwapped(w) ==
    LET r1 == notifyWebApp(DeclareAuthData(w))
    IN  IF r1.raised THEN r1 ELSE tryDeepLink(r1)

\* C8: when the script runs, both delivery attempts are made whatever fails in
\* either, no exception leaves them, each leaves what it would leave alone, and
\* the two calls in the other order leave the same.
C8_DeliveryAttemptsIndependent ==
    [][ (window.phase = "loaded" /\ window'.phase = "ran") =>
            /\ window'.attempted = {"tryDeepLink", "notifyWebApp"}
            /\ ~window'.raised
            /\ Outcome(window') = Outcome(ScriptSwapped(window))
            /\ DeepLinkPart(window') = DeepLinkPart(tryDeepLink(DeclareAuthData(window)))
            /\ WebPart(window') = WebPart(notifyWebApp(DeclareAuthData(window)))
      ]_vars

\* C8 witness: the deep link threw and the web notification was still made.
C8_DeepLinkFailedWebNotified ==
    /\ window.phase = "ran"
    /\ window.env.hrefThrows
    /\ window.location = {}
    /\ window.storage # {}
    /\ window.posted # {}

\* C9: when the code exchange or the userinfo fetch fails, /authorize answers a
\* server error, no delivery page, and the session is what it was.
C9_FailedAuthorizeKeepsSession ==
    (resp.route = "authorize" /\ resp.given = {}) =>
        /\ resp.status = 500
        /\ resp.body.kind = "error"
        /\ session[resp.sid] = resp.before

\* C9 witness: the userinfo fetch failed in a session that held a user.
C9_FailedInAuthenticatedSession ==
    /\ resp.route = "authorize"
    /\ resp.status = 500
    /\ resp.body.error = "userinfo"
    /\ "user" \in DOMAIN resp.before

\* C10: a request of one session leaves every other session's dict alone, and
\* the greeting of GET / is the one the session's own requests account for.
C10_SessionsIsolated ==
    /\ [][ \A t \in Sessions : t # resp'.sid => session'[t] = session[t] ]_vars
    /\ [](resp.route = "index" =>
            resp.body = index(OwnSession(history[resp.sid])).body)

\* C10 witness: GET / in one session while the other holds a different user.
C10_TwoSessionsDiffer ==
    /\ resp.route = "index"
    /\ \E t \in Sessions :
          /\ t # resp.sid
          /\ "user" \in DOMAIN session[t]
          /\ "user" \in DOMAIN session[resp.sid]
          /\ session[t] # session[resp.sid]

====
